---- MODULE Spec2Model ----
(***************************************************************************)
(* A model of doc/sphinxext/altair_ext/altairplot.py: the altair-plot and  *)
(* altair-plot-setup directives, the env-purge-doc handler and the two     *)
(* visitors of the altair_plot node, driven by the host's build lifecycle  *)
(* (purge a document, read it, write the documents with one builder).      *)
(*                                                                         *)
(* Text is modelled as a sequence of tokens.  A code text is the sequence  *)
(* of its lines, so that '' is <<"">> and '\n'.join concatenates.          *)
(***************************************************************************)
EXTENDS Integers, Sequences, FiniteSets, TLC

VARIABLES
    pc,                 \* the host's position in the build lifecycle
    docname,            \* env.docname: the document being read
    serialno,           \* env.temp_data['altair-plotserialno']
    lineno,             \* the line of the directive parsed last in docname
    env,                \* the attributes the extension adds to env: altair_plot_setup
    parsed,             \* per document, the blocks consumed by its read so far
    doctree,            \* per document, the nodes its directives returned
    builder,            \* the builder of the write phase
    body,               \* the translator's self.body
    files,              \* the files under builder.outdir: path -> chunks written
    dirs,               \* the directories that exist
    last                \* what the handler that ran last did (its inputs, locals and outcome)

vars == <<pc, docname, serialno, lineno, env, parsed, doctree, builder,
          body, files, dirs, last>>

----------------------------------------------------------------------------
(* Bounds.  Each project below names its own: the blocks it holds (the    *)
(* entries of the registry and the altair_plot nodes of the doctrees), and *)
(* its renders (the fragments appended to one translator's body, and the   *)
(* artifact files the output directory holds).                             *)

RegistryMaxBlocks == 4
RegistryMaxRenders == 1

PurgeMaxBlocks == 3
PurgeMaxRenders == 1

LayoutMaxBlocks == 2
LayoutMaxRenders == 1

FailMaxBlocks == 2
FailMaxRenders == 1

ContextMaxBlocks == 3
ContextMaxRenders == 2

IdsMaxBlocks == 3
IdsMaxRenders == 2

----------------------------------------------------------------------------
(* Python values *)

None == "None"
NoDoc == "NoDoc"
NoBuilder == "NoBuilder"
EmptyDict == [n \in {} |-> None]
EmptyStr == <<"">>

\* '\n'.join(strs), each string the sequence of its lines
RECURSIVE join(_)
join(strs) ==
    IF strs = <<>> THEN EmptyStr
    ELSE IF Len(strs) = 1 THEN strs[1]
    ELSE strs[1] \o join(Tail(strs))

\* '\n'.join(self.content): self.content is a list of single lines
join_content(content) == IF content = <<>> THEN EmptyStr ELSE content

\* str(n) of a non-negative int
Digit == <<"0", "1", "2", "3", "4", "5", "6", "7", "8", "9">>

RECURSIVE str(_)
str(n) == IF n < 10 THEN <<Digit[n + 1]>> ELSE str(n \div 10) \o <<Digit[(n % 10) + 1]>>

RECURSIVE replace(_, _, _)
replace(s, old, new) ==
    IF s = <<>> THEN <<>>
    ELSE <<IF s[1] = old THEN new ELSE s[1]>> \o replace(Tail(s), old, new)

----------------------------------------------------------------------------
(* Paths: a path is the sequence of its components, each of them text *)

srcdir == << <<"src">> >>
outdir == << <<"out">> >>

dirname(path) == SubSeq(path, 1, Len(path) - 1)
basename(path) == path[Len(path)]

\* os.path.relpath(dir, start) for a dir at or below start
relpath(dir, start) ==
    IF dir = start THEN << <<".">> >> ELSE SubSeq(dir, Len(start) + 1, Len(dir))

path_join(a, b) == a \o b

\* the file system's reading of a path: '.' components name nothing
normpath(path) == SelectSeq(path, LAMBDA c : c # <<".">>)

exists(ds, path) == normpath(path) \in ds

makedirs(ds, path) ==
    ds \cup {SubSeq(normpath(path), 1, k) : k \in 1..Len(normpath(path))}

\* open(path, 'a'): the file is created, or kept as it is
open_a(fs, path) ==
    IF normpath(path) \in DOMAIN fs THEN fs ELSE (normpath(path) :> <<>>) @@ fs

\* open(path, 'w'): the file is created or truncated
open_w(fs, path) == (normpath(path) :> <<>>) @@ fs

\* f.write(text) on the open file
write(fs, path, text) ==
    [fs EXCEPT ![normpath(path)] = Append(@, text)]

----------------------------------------------------------------------------
(* The code of the blocks: the statements the documents use, and how Python *)
(* runs them.  A context is the pair of dicts handed to exec and eval.      *)

Names == {"x"}

\* statements that are a single expression
Expressions == {"chart(x)", "42"}

\* ast.parse(code).body: a blank line is no statement
Statements(code) == SelectSeq(code, LAMBDA line : line # "")

bound(ctx, n) == n \in DOMAIN ctx.l \/ n \in DOMAIN ctx.g

lookup(ctx, n) == IF n \in DOMAIN ctx.l THEN ctx.l[n] ELSE ctx.g[n]

Ok == "ok"

\* one statement run by exec(.., _globals, _locals): a store goes to the locals;
\* input is what the world outside the build answers to load()
ExecStmt(stmt, ctx, input) ==
    CASE stmt = "x = 5" ->
           [ctx |-> [ctx EXCEPT !.l = ("x" :> 5) @@ @], err |-> Ok]
      [] stmt = "x = load()" ->
           [ctx |-> [ctx EXCEPT !.l = ("x" :> input) @@ @], err |-> Ok]
      [] stmt = "chart(x)" ->
           [ctx |-> ctx, err |-> IF bound(ctx, "x") THEN Ok ELSE "NameError"]
      [] stmt = "raise" ->
           [ctx |-> ctx, err |-> "Exception"]
      [] OTHER ->
           [ctx |-> ctx, err |-> Ok]

RECURSIVE ExecStmts(_, _, _)
ExecStmts(stmts, ctx, input) ==
    IF stmts = <<>> THEN [ctx |-> ctx, err |-> Ok]
    ELSE LET r == ExecStmt(stmts[1], ctx, input)
         IN  IF r.err # Ok THEN r ELSE ExecStmts(Tail(stmts), r.ctx, input)

\* exec(code, _globals, _locals): exec puts __builtins__ into the globals
exec(code, ctx, input) ==
    ExecStmts(Statements(code),
              [ctx EXCEPT !.g = ("__builtins__" :> "builtins") @@ @], input)

\* eval of one expression in a context
eval(expr, ctx) ==
    CASE expr = "chart(x)" ->
           IF bound(ctx, "x")
           THEN [err |-> Ok, value |-> [type |-> "Chart", data |-> lookup(ctx, "x")]]
           ELSE [err |-> "NameError", value |-> None]
      [] OTHER ->
           [err |-> Ok, value |-> [type |-> "int", data |-> 42]]

\* utils.exec_then_eval: run all statements but the last, then evaluate the last one;
\* fails when the body is empty or the last statement is no expression
exec_then_eval(code, ctx, input) ==
    LET stmts == Statements(code)
    IN  IF stmts = <<>> THEN [ctx |-> ctx, err |-> "IndexError", value |-> None]
        ELSE IF stmts[Len(stmts)] \notin Expressions
             THEN [ctx |-> ctx, err |-> "NotAnExpression", value |-> None]
        ELSE LET r == exec(SubSeq(stmts, 1, Len(stmts) - 1), ctx, input)
             IN  IF r.err # Ok THEN [ctx |-> r.ctx, err |-> r.err, value |-> None]
                 ELSE LET v == eval(stmts[Len(stmts)], r.ctx)
                      IN  [ctx |-> r.ctx, err |-> v.err, value |-> v.value]

\* chart.to_dict(): only a chart has it
to_dict(value) ==
    IF value.type = "Chart"
    THEN [err |-> Ok, spec |-> [data |-> value.data]]
    ELSE [err |-> "AttributeError", spec |-> None]

\* json.dumps of the embed dict, as its tokens
json_bool(b) == IF b THEN "true" ELSE "false"

json_dumps(obj) ==
    <<"{", "\"mode\"", ":", obj.mode, ",",
      "\"actions\"", ":", "{",
          "\"editor\"", ":", json_bool(obj.actions.editor), ",",
          "\"source\"", ":", json_bool(obj.actions.source), ",",
          "\"export\"", ":", json_bool(obj.actions.export), "}", ",",
      "\"spec\"", ":", "{", "\"data\"", ":">> \o str(obj.spec.data) \o <<"}", "}">>

\* VGL_TEMPLATE.render(div_id=.., filename=..): the two places the template fills
VGL_TEMPLATE_render(div_id, filename) ==
    <<"<div id=\"">> \o div_id \o <<"\">", "<script>..</script>", "vg.embed(\"#">>
        \o div_id \o <<"\", \"">> \o filename \o <<"\", ...)", "</div>">>

----------------------------------------------------------------------------
(* The documents of the project: docname -> the path of its source file *)

Source ==
    [dn \in {"a.b", "a-b", "sub/a.b"} |->
        CASE dn = "a.b" -> srcdir \o << <<"a", ".", "b", ".", "rst">> >>
          [] dn = "a-b" -> srcdir \o << <<"a", "-", "b", ".", "rst">> >>
          [] dn = "sub/a.b" -> srcdir \o << <<"sub">>, <<"a", ".", "b", ".", "rst">> >>]

DocNames == DOMAIN Source

----------------------------------------------------------------------------
(* The setup registry *)

hasattr(e, attr) == attr \in DOMAIN e

\* getattr(env, 'altair_plot_setup', [])
getattr_altair_plot_setup(e) ==
    IF hasattr(e, "altair_plot_setup") THEN e["altair_plot_setup"] ELSE <<>>

\* env.new_serialno('altair-plot'): the next number of the document being read
\* (the host keeps the counter in env.temp_data, which it clears for every read)
new_serialno(cur) == [value |-> cur, next |-> cur + 1]

\* AltairPlotSetupDirective.run: the entry it appends and the node it returns
setup_targetnode(serial) ==
    [tagname |-> "target", ids |-> << <<"altair-plot-">> \o str(serial) >>]

AltairPlotSetupDirective_env(e, dn, line, content, targetnode) ==
    LET e1 == IF ~hasattr(e, "altair_plot_setup")
              THEN ("altair_plot_setup" :> <<>>) @@ e ELSE e
    IN  [e1 EXCEPT !["altair_plot_setup"] =
            Append(@, [docname |-> dn, lineno |-> line,
                       code |-> join_content(content), target |-> targetnode])]

\* a purge with the comparison inverted: it keeps the document's entries only
purge_keep_only(e, dn) ==
    IF ~hasattr(e, "altair_plot_setup") THEN e
    ELSE [e EXCEPT !["altair_plot_setup"] =
            SelectSeq(@, LAMBDA item : item.docname = dn)]

\* a purge that removes nothing
purge_nothing(e, dn) == e

\* purge_altair_plot_setup(app, env, docname): lines 68-72

purge_altair_plot_setup(e, dn) ==
    IF ~hasattr(e, "altair_plot_setup") THEN e
    ELSE [e EXCEPT !["altair_plot_setup"] =
            SelectSeq(@, LAMBDA item : item.docname # dn)]

----------------------------------------------------------------------------
(* AltairPlotDirective.run *)

RECURSIVE codes(_)
codes(items) == IF items = <<>> THEN <<>> ELSE <<items[1].code>> \o codes(Tail(items))

\* the setup code without the test of the owning document
setupcode_of_all(e, dn) == join(codes(getattr_altair_plot_setup(e)))

\* setupcode: lines 90-92
setupcode(e, dn) ==
    join(codes(SelectSeq(getattr_altair_plot_setup(e), LAMBDA item : item.docname = dn)))

\* lines 95-97
source_literal(code) ==
    [tagname |-> "literal_block", rawsource |-> code, text |-> code, language |-> "python"]

\* lines 99-108: the ids, from the source file's name and the serial number
rst_base(rst_source) == replace(basename(rst_source), ".", "-")

div_id(rst_source, serial) == rst_base(rst_source) \o <<"-altair-plot-">> \o str(serial)

target_id(rst_source, serial) == rst_base(rst_source) \o <<"-altair-source-">> \o str(serial)

\* lines 113-123
plot_node(e, dn, line, serial, content, options) ==
    LET rst_source == Source[dn]
        rst_dir == dirname(rst_source)
        node == [tagname |-> "altair_plot",
                 target_id |-> target_id(rst_source, serial),
                 div_id |-> div_id(rst_source, serial),
                 code |-> join_content(content),
                 setupcode |-> setupcode(e, dn),
                 relpath |-> relpath(rst_dir, srcdir),
                 rst_source |-> rst_source,
                 rst_lineno |-> line]
    IN  IF "alt" \in DOMAIN options THEN ("alt" :> options["alt"]) @@ node ELSE node

\* the nodes with code-below ignored
result_plot_last(target_node, plot, literal, show_code, code_below) ==
    <<target_node>>
        \o (IF show_code THEN <<literal>> ELSE <<>>)
        \o <<plot>>

\* lines 125-134
result(target_node, plot, literal, show_code, code_below) ==
    <<target_node>>
        \o (IF code_below THEN <<plot>> ELSE <<>>)
        \o (IF show_code THEN <<literal>> ELSE <<>>)
        \o (IF ~code_below THEN <<plot>> ELSE <<>>)

AltairPlotDirective_run(e, dn, line, serial, content, options) ==
    LET show_code == "hide-code" \notin DOMAIN options
        code_below == "code-below" \in DOMAIN options
        plot == plot_node(e, dn, line, serial, content, options)
        target_node == [tagname |-> "target", ids |-> <<plot.target_id>>]
    IN  result(target_node, plot, source_literal(plot.code), show_code, code_below)

----------------------------------------------------------------------------
(* The visitors of the altair_plot node.  self is the translator with the  *)
(* file system behind its builder: [files, dirs, body]; a visitor returns   *)
(* it with the exception that leaves the handler (raised), the code texts   *)
(* handed to exec and exec_then_eval (ran), the context they ran in and the *)
(* spec of the chart.                                                       *)

EmptyCtx == [g |-> EmptyDict, l |-> EmptyDict]

\* a context that outlives the call: the one the call before ended with
EvaluationContext_kept(kept) == kept

\* line 139: _globals, _locals = {}, {}, whatever context an earlier call ended with

EvaluationContext(kept) == EmptyCtx

\* lines 139-147: run the setup code and the plot code, convert the chart
html_visit_execute(node, kept, input) ==
    LET ctx0 == EvaluationContext(kept)
        has_setup == node.setupcode # EmptyStr
        s == IF has_setup THEN exec(node.setupcode, ctx0, input)
             ELSE [ctx |-> ctx0, err |-> Ok]
        ran1 == IF has_setup THEN <<[fn |-> "exec", code |-> node.setupcode]>> ELSE <<>>
    IN  IF s.err # Ok
        THEN [err |-> s.err, ran |-> ran1, ctx |-> s.ctx, spec |-> <<>>]
        ELSE LET chart == exec_then_eval(node.code, s.ctx, input)
                 ran2 == Append(ran1, [fn |-> "exec_then_eval", code |-> node.code])
             IN  IF chart.err # Ok
                 THEN [err |-> chart.err, ran |-> ran2, ctx |-> chart.ctx, spec |-> <<>>]
                 ELSE LET d == to_dict(chart.value)
                      IN  [err |-> d.err, ran |-> ran2, ctx |-> chart.ctx,
                           spec |-> IF d.err = Ok THEN <<d.spec>> ELSE <<>>]

embed(spec) ==
    [mode |-> "vega-lite",
     actions |-> [editor |-> TRUE, source |-> FALSE, export |-> TRUE],
     spec |-> spec]

\* lines 157-161
dest_dir(node) == path_join(outdir, node.relpath)

filename(node) == node.div_id \o <<".vl.json">>

dest_path(node) == path_join(dest_dir(node), <<filename(node)>>)

\* the write with the file opened for appending
write_embed_spec_appending(fs, path, embed_spec) ==
    write(open_a(fs, path), path, embed_spec)

\* lines 162-163: with open(dest_path, 'w') as f: f.write(embed_spec)
write_embed_spec(fs, path, embed_spec) ==
    write(open_w(fs, path), path, embed_spec)

\* lines 149-169: write the artifact, append the markup, raise SkipNode
html_visit_emit(self, node, spec) ==
    LET embed_spec == json_dumps(embed(spec))
    IN  [files |-> write_embed_spec(self.files, dest_path(node), embed_spec),
         dirs |-> IF ~exists(self.dirs, dest_dir(node))
                  THEN makedirs(self.dirs, dest_dir(node)) ELSE self.dirs,
         body |-> Append(self.body, VGL_TEMPLATE_render(node.div_id, filename(node))),
         raised |-> "SkipNode"]

\* a handler that emits an empty chart when the code fails
html_visit_emit_on_error(self, node, kept, input) ==
    LET e == html_visit_execute(node, kept, input)
        out == html_visit_emit(self, node, IF e.err = Ok THEN e.spec[1] ELSE [data |-> 0])
    IN  [out EXCEPT !.raised = IF e.err = Ok THEN "SkipNode" ELSE e.err]
            @@ [ran |-> e.ran, ctx |-> e.ctx, spec |-> e.spec]

\* lines 137-169: an exception of the executed code leaves the handler where it is raised
html_visit_altair_plot(self, node, kept, input) ==
    LET e == html_visit_execute(node, kept, input)
    IN  (IF e.err # Ok
         THEN [files |-> self.files, dirs |-> self.dirs, body |-> self.body,
               raised |-> e.err]
         ELSE html_visit_emit(self, node, e.spec[1]))
            @@ [ran |-> e.ran, ctx |-> e.ctx, spec |-> e.spec]

\* lines 174-177
placeholder(node) ==
    IF "alt" \in DOMAIN node
    THEN <<"[ graph: ">> \o node.alt \o <<" ]">>
    ELSE <<"[ graph ]">>

\* lines 172-178
generic_visit_altair_plot(self, node) ==
    [files |-> self.files, dirs |-> self.dirs,
     body |-> Append(self.body, placeholder(node)),
     raised |-> "SkipNode", ran |-> <<>>, ctx |-> EmptyCtx, spec |-> <<>>]

\* setup(app): app.add_node(altair_plot, html=.., latex=.., texinfo=.., text=.., man=..)
Builders == {"html", "latex", "texinfo", "text", "man"}

\* a registration that gives every builder the html visitor
visitor_html_for_all(b) == "html_visit_altair_plot"

\* the visitor add_node registers for a builder

visitor(b) ==
    IF b = "html" THEN "html_visit_altair_plot" ELSE "generic_visit_altair_plot"

----------------------------------------------------------------------------
(* The build: the host purges a document and reads it, directive by        *)
(* directive; with the reads done it writes the documents with one builder, *)
(* visiting their nodes.  An exception raised by a visitor ends the build;  *)
(* the next build starts from the pickled env and doctrees.                 *)

NoCall ==
    [op |-> "none", doc |-> NoDoc, node |-> <<>>, options |-> EmptyDict,
     result |-> <<>>, raised |-> "none", ran |-> <<>>, ctx |-> EmptyCtx,
     spec |-> <<>>, before |-> <<>>, world |-> <<>>]

Init ==
    /\ pc = "idle"
    /\ docname = NoDoc
    /\ serialno = 0
    /\ lineno = 0
    /\ env = EmptyDict
    /\ parsed = [dn \in DocNames |-> <<>>]
    /\ doctree = [dn \in DocNames |-> <<>>]
    /\ builder = NoBuilder
    /\ body = <<>>
    /\ files = [path \in {} |-> <<>>]
    /\ dirs = {outdir}
    /\ last = NoCall

IsPlot(node) == node.tagname = "altair_plot"

PlotsOf(dn) == {i \in DOMAIN doctree[dn] : IsPlot(doctree[dn][i])}

RECURSIVE NumPlots(_)
NumPlots(dns) ==
    IF dns = {} THEN 0
    ELSE LET dn == CHOOSE x \in dns : TRUE
         IN  Cardinality(PlotsOf(dn)) + NumPlots(dns \ {dn})

NumBlocks == Len(getattr_altair_plot_setup(env)) + NumPlots(DocNames)

\* self.options of a plot block: a flag's value is None, alt's is its text
Options(hide, below, alt) ==
    (IF hide THEN ("hide-code" :> <<None>>) ELSE EmptyDict)
        @@ (IF below THEN ("code-below" :> <<None>>) ELSE EmptyDict)
        @@ (IF alt # <<>> THEN ("alt" :> alt[1]) ELSE EmptyDict)

\* 'env-purge-doc' for dn (line 195), after which the host reads dn
EnvPurgeDoc(dn) ==
    /\ pc = "idle"
    /\ env' = purge_altair_plot_setup(env, dn)
    /\ parsed' = [parsed EXCEPT ![dn] = <<>>]
    /\ doctree' = [doctree EXCEPT ![dn] = <<>>]
    /\ docname' = dn
    /\ serialno' = 0
    /\ lineno' = 0
    /\ pc' = "reading"
    /\ last' = [NoCall EXCEPT !.op = "purge", !.doc = dn,
                              !.before = getattr_altair_plot_setup(env)]
    /\ UNCHANGED <<builder, body, files, dirs>>

\* an altair-plot-setup block of the document being read
AltairPlotSetupDirectiveRun(I, content) ==
    /\ pc = "reading"
    /\ NumBlocks < I.maxBlocks
    /\ LET serial == new_serialno(serialno)
           targetnode == setup_targetnode(serial.value)
       IN  /\ serialno' = serial.next
           /\ lineno' = lineno + 1
           /\ env' = AltairPlotSetupDirective_env(env, docname, lineno + 1, content, targetnode)
           /\ parsed' = [parsed EXCEPT ![docname] =
                            Append(@, [directive |-> "altair-plot-setup", content |-> content])]
           /\ doctree' = [doctree EXCEPT ![docname] = @ \o <<targetnode>>]
           /\ last' = [NoCall EXCEPT !.op = "setup", !.doc = docname,
                                     !.result = <<targetnode>>]
    /\ UNCHANGED <<pc, docname, builder, body, files, dirs>>

\* an altair-plot block of the document being read
AltairPlotDirectiveRun(I, content, options) ==
    /\ pc = "reading"
    /\ NumBlocks < I.maxBlocks
    /\ LET serial == new_serialno(serialno)
           res == AltairPlotDirective_run(env, docname, lineno + 1, serial.value,
                                          content, options)
       IN  /\ serialno' = serial.next
           /\ lineno' = lineno + 1
           /\ parsed' = [parsed EXCEPT ![docname] =
                            Append(@, [directive |-> "altair-plot", content |-> content])]
           /\ doctree' = [doctree EXCEPT ![docname] = @ \o res]
           /\ last' = [NoCall EXCEPT !.op = "plot", !.doc = docname,
                                     !.options = options, !.result = res]
    /\ UNCHANGED <<pc, docname, env, builder, body, files, dirs>>

\* the read of docname ends: the host clears env.temp_data
EndRead ==
    /\ pc = "reading"
    /\ pc' = "idle"
    /\ docname' = NoDoc
    /\ serialno' = 0
    /\ lineno' = 0
    /\ last' = NoCall
    /\ UNCHANGED <<env, parsed, doctree, builder, body, files, dirs>>

BeginWrite(b) ==
    /\ pc = "idle"
    /\ pc' = "writing"
    /\ builder' = b
    /\ last' = NoCall
    /\ UNCHANGED <<docname, serialno, lineno, env, parsed, doctree, body, files, dirs>>

Visited(I, dn, i, out) ==
    /\ Len(body) < I.maxRenders
    /\ Cardinality(DOMAIN out.files) <= I.maxRenders
    /\ files' = out.files
    /\ dirs' = out.dirs
    /\ body' = out.body
    /\ pc' = IF out.raised = "SkipNode" THEN "writing" ELSE "aborted"
    /\ last' = [NoCall EXCEPT !.op = visitor(builder), !.doc = dn,
                              !.node = <<doctree[dn][i]>>, !.raised = out.raised,
                              !.ran = out.ran, !.ctx = out.ctx, !.spec = out.spec,
                              !.world = <<[files |-> files, dirs |-> dirs, body |-> body]>>]
    /\ UNCHANGED <<docname, serialno, lineno, env, parsed, doctree, builder>>

\* the translator visits an altair_plot node of a document
HtmlVisitAltairPlot(I, dn, i, input) ==
    /\ pc = "writing"
    /\ visitor(builder) = "html_visit_altair_plot"
    /\ i \in PlotsOf(dn)
    /\ Visited(I, dn, i, html_visit_altair_plot([files |-> files, dirs |-> dirs, body |-> body],
                                             doctree[dn][i], last.ctx, input))

GenericVisitAltairPlot(I, dn, i) ==
    /\ pc = "writing"
    /\ visitor(builder) = "generic_visit_altair_plot"
    /\ i \in PlotsOf(dn)
    /\ Visited(I, dn, i, generic_visit_altair_plot([files |-> files, dirs |-> dirs, body |-> body],
                                                doctree[dn][i]))

\* the write phase ends, and with it the translator
EndWrite ==
    /\ pc = "writing"
    /\ pc' = "idle"
    /\ builder' = NoBuilder
    /\ body' = <<>>
    /\ last' = NoCall
    /\ UNCHANGED <<docname, serialno, lineno, env, parsed, doctree, files, dirs>>

\* after a failed build the host is run again
Restart ==
    /\ pc = "aborted"
    /\ pc' = "idle"
    /\ builder' = NoBuilder
    /\ body' = <<>>
    /\ last' = NoCall
    /\ UNCHANGED <<docname, serialno, lineno, env, parsed, doctree, files, dirs>>

\* the steps of a project whose documents, blocks and builders are those of I
Next(I) ==
    \/ \E dn \in I.docs : EnvPurgeDoc(dn)
    \/ \E content \in I.setups : AltairPlotSetupDirectiveRun(I, content)
    \/ \E content \in I.plots, hide \in I.hide, below \in I.below, alt \in I.alts :
           AltairPlotDirectiveRun(I, content, Options(hide, below, alt))
    \/ EndRead
    \/ \E b \in I.builders : BeginWrite(b)
    \/ \E dn \in I.docs, i \in 1..(3 * I.maxBlocks), input \in I.data :
           HtmlVisitAltairPlot(I, dn, i, input)
    \/ \E dn \in I.docs, i \in 1..(3 * I.maxBlocks) : GenericVisitAltairPlot(I, dn, i)
    \/ EndWrite
    \/ Restart

\* three documents with one kind of block each
PurgeProject ==
    [docs |-> DocNames,
     setups |-> {<<"x = 5">>},
     plots |-> {<<"chart(x)">>},
     hide |-> {FALSE}, below |-> {FALSE}, alts |-> {<<>>},
     builders |-> {"html", "text"},
     data |-> {5},
     maxBlocks |-> PurgeMaxBlocks, maxRenders |-> PurgeMaxRenders]

\* two documents with plain blocks
RegistryProject ==
    [docs |-> {"a.b", "sub/a.b"},
     setups |-> {<<"x = 5">>, <<>>},
     plots |-> {<<"chart(x)">>},
     hide |-> {FALSE}, below |-> {FALSE}, alts |-> {<<>>},
     builders |-> {"html", "text"},
     data |-> {5},
     maxBlocks |-> RegistryMaxBlocks, maxRenders |-> RegistryMaxRenders]

\* one document, every combination of options, every builder
LayoutProject ==
    [docs |-> {"a.b"},
     setups |-> {<<"x = 5">>},
     plots |-> {<<"chart(x)">>},
     hide |-> BOOLEAN, below |-> BOOLEAN,
     alts |-> {<<>>, << <<"sales">> >>, << <<>> >>},
     builders |-> Builders,
     data |-> {5},
     maxBlocks |-> LayoutMaxBlocks, maxRenders |-> LayoutMaxRenders]

\* one document whose blocks succeed or fail, in every way a render fails
FailProject ==
    [docs |-> {"a.b"},
     setups |-> {<<"x = 5">>, <<"raise">>},
     plots |-> {<<"chart(x)">>, <<"42">>, <<"raise">>, <<"x = 5">>, <<>>},
     hide |-> {FALSE}, below |-> {FALSE}, alts |-> {<<>>},
     builders |-> {"html", "text"},
     data |-> {5},
     maxBlocks |-> FailMaxBlocks, maxRenders |-> FailMaxRenders]

\* one document whose blocks bind names and read the world outside
ContextProject ==
    [docs |-> {"a.b"},
     setups |-> {<<"x = 5">>},
     plots |-> {<<"chart(x)">>, <<"x = load()", "chart(x)">>},
     hide |-> {FALSE}, below |-> {FALSE}, alts |-> {<<>>},
     builders |-> {"html", "text"},
     data |-> {6, 7},
     maxBlocks |-> ContextMaxBlocks, maxRenders |-> ContextMaxRenders]

\* three documents whose file names differ in their directory, or in '.' and '-'
IdsProject ==
    [docs |-> DocNames,
     setups |-> {<<"x = 5">>},
     plots |-> {<<"chart(x)">>},
     hide |-> {FALSE}, below |-> {FALSE}, alts |-> {<<>>},
     builders |-> {"html", "text"},
     data |-> {5, 6},
     maxBlocks |-> IdsMaxBlocks, maxRenders |-> IdsMaxRenders]

Spec == Init /\ [][Next(RegistryProject)]_vars

SpecPurge == Init /\ [][Next(PurgeProject)]_vars

SpecLayout == Init /\ [][Next(LayoutProject)]_vars

SpecFail == Init /\ [][Next(FailProject)]_vars

SpecContext == Init /\ [][Next(ContextProject)]_vars

SpecIds == Init /\ [][Next(IdsProject)]_vars

----------------------------------------------------------------------------
(* Properties *)

Registry == getattr_altair_plot_setup(env)

IsHtmlVisit == last.op = "html_visit_altair_plot"

IsGenericVisit == last.op = "generic_visit_altair_plot"

IsVisit == IsHtmlVisit \/ IsGenericVisit

\* the setup code the last render executed: '' when it executed none
SetupRan ==
    IF last.ran # <<>> /\ last.ran[1].fn = "exec" THEN last.ran[1].code ELSE EmptyStr

\* the code texts of the altair-plot-setup blocks among blocks
RECURSIVE block_codes(_)
block_codes(blocks) ==
    IF blocks = <<>> THEN <<>>
    ELSE (IF blocks[1].directive = "altair-plot-setup"
          THEN <<join_content(blocks[1].content)>> ELSE <<>>)
         \o block_codes(Tail(blocks))

\* every pair of distinct altair_plot nodes of the doctrees
AllPlots == UNION {{<<dn, i>> : i \in PlotsOf(dn)} : dn \in DocNames}

PlotPairs == {pq \in AllPlots \X AllPlots : pq[1] # pq[2]}

\* whether a code text stores to x
StoresX(code) == \E k \in DOMAIN code : code[k] \in {"x = 5", "x = load()"}

----------------------------------------------------------------------------
(* C1.  The setup code a plot block of document D is rendered with is the  *)
(* '\n'-joined code of the setup entries the registry holds for D that     *)
(* were recorded before the block was parsed, in registration order and    *)
(* without deduplication, and of no entry of another document.             *)
C1_SetupCodeOfEarlierEntries ==
    IsHtmlVisit =>
        SetupRan = join(codes(SelectSeq(Registry,
                       LAMBDA item : /\ item.docname = last.doc
                                     /\ item.lineno < last.node[1].rst_lineno)))

\* a render with the code of two equal entries of its document, while the
\* registry holds an entry of another document
C1_Witness ==
    /\ IsHtmlVisit
    /\ SetupRan = <<"x = 5", "x = 5">>
    /\ \E k \in DOMAIN Registry : Registry[k].docname # last.doc

\* C1 as the claim states it: the code of every entry registered for D before
\* the render, those recorded after the block was parsed included
C1_SetupCodeOfEntriesBeforeRender ==
    IsHtmlVisit =>
        SetupRan = join(codes(SelectSeq(Registry,
                       LAMBDA item : item.docname = last.doc)))

(* C2.  purge(D) removes from the registry exactly the entries of D: none  *)
(* of D remains, and the entries of the other documents are all there,     *)
(* unchanged and in the order they had.                                    *)
C2_PurgeRemovesExactlyTheDocument ==
    last.op = "purge" =>
        LET before == last.before
            keep == {j \in DOMAIN before : before[j].docname # last.doc}
            nth(k) == CHOOSE j \in keep : Cardinality({m \in keep : m < j}) = k - 1
        IN  /\ Len(Registry) = Cardinality(keep)
            /\ \A k \in DOMAIN Registry :
                   /\ Registry[k].docname # last.doc
                   /\ Registry[k] = before[nth(k)]

\* a purge that took an entry from between the entries of two other documents
C2_Witness ==
    /\ last.op = "purge"
    /\ Len(last.before) = 3
    /\ last.before[2].docname = last.doc
    /\ Len(Registry) = 2
    /\ Registry[1].docname # Registry[2].docname

(* C3.  No stale setup code in a new parse: the setup code of every plot   *)
(* descriptor of a document is the code of the setup blocks that the read  *)
(* which made the descriptor consumed before it, the read that began with  *)
(* the last purge of the document.                                         *)
C3_NoStaleSetupCode ==
    \A dn \in DocNames : \A i \in PlotsOf(dn) :
        doctree[dn][i].setupcode =
            join(block_codes(SubSeq(parsed[dn], 1, doctree[dn][i].rst_lineno - 1)))

\* a descriptor of a.b without setup code whose artifact an earlier build wrote:
\* that build's parse of a.b had recorded x = 5 before the block
C3_Witness ==
    \E i \in PlotsOf("a.b") :
        /\ doctree["a.b"][i].setupcode = EmptyStr
        /\ doctree["a.b"][i].rst_lineno = 2
        /\ normpath(dest_path(doctree["a.b"][i])) \in DOMAIN files

(* C4.  The nodes a plot block returns start with the anchor and hold the  *)
(* visualization node once; the source echo comes before it, or after it   *)
(* with code-below set, and is absent with hide-code set.                  *)
C4_NodeOrder ==
    last.op = "plot" =>
        LET kinds == [k \in DOMAIN last.result |-> last.result[k].tagname]
            hide == "hide-code" \in DOMAIN last.options
            below == "code-below" \in DOMAIN last.options
            plot == last.result[CHOOSE k \in DOMAIN kinds : kinds[k] = "altair_plot"]
        IN  /\ kinds[1] = "target"
            /\ Cardinality({k \in DOMAIN kinds : kinds[k] = "altair_plot"}) = 1
            /\ hide => kinds = <<"target", "altair_plot">>
            /\ (~hide /\ ~below) => kinds = <<"target", "literal_block", "altair_plot">>
            /\ (~hide /\ below) => kinds = <<"target", "altair_plot", "literal_block">>
            /\ last.result[1].ids = <<plot.target_id>>
            /\ \A k \in DOMAIN kinds :
                   kinds[k] = "literal_block" => last.result[k].text = plot.code

\* a block with code-below set and its code shown
C4_Witness ==
    /\ last.op = "plot"
    /\ "code-below" \in DOMAIN last.options
    /\ "hide-code" \notin DOMAIN last.options
    /\ Len(last.result) = 3
    /\ last.result[3].text = <<"chart(x)">>

(* C5.  Any two plot blocks of the doctrees of one build have distinct     *)
(* container ids and distinct anchor ids.                                  *)
C5_DistinctIds ==
    \A pq \in PlotPairs :
        LET n1 == doctree[pq[1][1]][pq[1][2]]
            n2 == doctree[pq[2][1]][pq[2][2]]
        IN  n1.div_id # n2.div_id /\ n1.target_id # n2.target_id

(* C6.  For a builder other than html the render of a plot descriptor runs *)
(* no code and leaves the files alone; it appends one placeholder, with    *)
(* the alt text when the descriptor has one, and raises SkipNode.          *)
C6_FallbackRunsNothing ==
    (IsVisit /\ builder # "html") =>
        LET node == last.node[1]
            was == last.world[1]
        IN  /\ last.ran = <<>>
            /\ files = was.files
            /\ dirs = was.dirs
            /\ body = Append(was.body,
                             IF "alt" \in DOMAIN node
                             THEN <<"[ graph: ">> \o node.alt \o <<" ]">>
                             ELSE <<"[ graph ]">>)
            /\ last.raised = "SkipNode"

\* a latex render of a descriptor with alt text, beside an artifact of an html build
C6_Witness ==
    /\ IsGenericVisit
    /\ builder = "latex"
    /\ "alt" \in DOMAIN last.node[1]
    /\ body = << <<"[ graph: ", "sales", " ]">> >>
    /\ DOMAIN files # {}

(* C7.  A failed HTML render emits nothing: when the setup code or the     *)
(* plot code raises, the plot body is empty or does not end in an          *)
(* expression, or the value has no to_dict, the exception leaves the       *)
(* handler, no file or directory is made or changed, and the body is as it *)
(* was.                                                                    *)
C7_FailedRenderEmitsNothing ==
    IsHtmlVisit =>
        LET node == last.node[1]
            was == last.world[1]
            stmts == SelectSeq(node.code, LAMBDA line : line # "")
            fails ==
                \/ \E k \in DOMAIN node.setupcode : node.setupcode[k] = "raise"
                \/ \E k \in DOMAIN stmts : stmts[k] = "raise"
                \/ stmts = <<>>
                \/ stmts[Len(stmts)] \in {"x = 5", "42"}
        IN  /\ fails => last.raised # "SkipNode"
            /\ last.raised # "SkipNode" =>
                   /\ pc = "aborted"
                   /\ files = was.files
                   /\ dirs = was.dirs
                   /\ body = was.body

\* the render of a value without to_dict, at the path of an artifact of an earlier build
C7_Witness ==
    /\ IsHtmlVisit
    /\ last.raised = "AttributeError"
    /\ normpath(dest_path(last.node[1])) \in DOMAIN files

(* C8.  Every HTML render starts from an empty context, runs the setup     *)
(* code (when not empty) and then the plot code in that one context, and   *)
(* sees no name an earlier render bound.                                   *)
C8_FreshContext ==
    IsHtmlVisit =>
        LET node == last.node[1]
            full == (IF node.setupcode # EmptyStr
                     THEN <<[fn |-> "exec", code |-> node.setupcode]>> ELSE <<>>)
                    \o <<[fn |-> "exec_then_eval", code |-> node.code]>>
        IN  /\ last.ran \in {full, SubSeq(full, 1, 1)}
            /\ last.raised = "SkipNode" => last.ran = full
            /\ DOMAIN last.ctx.l \subseteq
                   {n \in Names : StoresX(node.setupcode) \/ StoresX(node.code)}
            /\ DOMAIN last.ctx.g \subseteq {"__builtins__"}
            /\ (node.code = <<"chart(x)">> /\ ~StoresX(node.setupcode)) =>
                   last.raised = "NameError"
            /\ (node.code = <<"chart(x)">> /\ node.setupcode = <<"x = 5">>) =>
                   (last.raised = "SkipNode" /\ last.spec[1].data = 5)

\* a block that reads x and has no setup code fails right after a render that bound x
C8_Witness ==
    /\ IsHtmlVisit
    /\ last.node[1].code = <<"chart(x)">>
    /\ last.node[1].setupcode = EmptyStr
    /\ last.raised = "NameError"
    /\ Len(last.world[1].body) = 1

(* C9.  An HTML render that succeeds leaves at                             *)
(* <outdir>/<relpath>/<div_id>.vl.json the envelope of this render's spec  *)
(* and nothing of what the file held; no other file appears or changes.    *)
C9_RerenderOverwrites ==
    (IsHtmlVisit /\ last.raised = "SkipNode") =>
        LET node == last.node[1]
            was == last.world[1]
            path == SelectSeq(outdir \o node.relpath \o <<node.div_id \o <<".vl.json">> >>,
                              LAMBDA c : c # <<".">>)
        IN  /\ DOMAIN files = DOMAIN was.files \cup {path}
            /\ \A q \in DOMAIN was.files \ {path} : files[q] = was.files[q]
            /\ files[path] =
                   << <<"{", "\"mode\"", ":", "vega-lite", ",",
                        "\"actions\"", ":", "{",
                            "\"editor\"", ":", "true", ",",
                            "\"source\"", ":", "false", ",",
                            "\"export\"", ":", "true", "}", ",",
                        "\"spec\"", ":", "{", "\"data\"", ":">>
                      \o str(last.spec[1].data) \o <<"}", "}">> >>

\* the second render of a descriptor in one write phase, with a spec other than the first's
C9_Witness ==
    /\ IsHtmlVisit
    /\ last.raised = "SkipNode"
    /\ Len(body) = 2
    /\ body[1] = body[2]
    /\ LET path == normpath(dest_path(last.node[1]))
       IN  /\ path \in DOMAIN last.world[1].files
           /\ last.world[1].files[path] # files[path]

(* C10.  Any two plot blocks of the doctrees of one build have distinct    *)
(* artifact paths.                                                         *)
C10_DistinctArtifacts ==
    \A pq \in PlotPairs :
        normpath(dest_path(doctree[pq[1][1]][pq[1][2]]))
            # normpath(dest_path(doctree[pq[2][1]][pq[2][2]]))

====
